---- MODULE Spec2Model ----
(***************************************************************************)
(* FineFlex backend (server.js, database.js): the users and expenses       *)
(* tables, the register / expense / stats / chat handlers with their       *)
(* database callbacks as separate steps, and generateMockAIResponse.       *)
(*                                                                         *)
(* JavaScript values are tagged records: [t |-> "num", n |-> 5],           *)
(* [t |-> "str", s |-> <<"a","b">>] (a string is a sequence of one-         *)
(* character strings), [t |-> "undef"], [t |-> "null"], [t |-> "nan"].     *)
(* A text (a response body, a prompt) is a sequence of string chunks.      *)
(***************************************************************************)
EXTENDS Integers, Sequences, FiniteSets, TLC

VARIABLES users, regs, expenses, nextExpId, now, stats, resp, chat, apiKey,
          advice

vars == <<users, regs, expenses, nextExpId, now, stats, resp, chat, apiKey,
          advice>>

(***************************************************************************)
(* Bounds of the model.                                                    *)
(***************************************************************************)
MaxRegs == 3
MaxLedgerRows == 2
MaxStatsRows == 2
MaxChatRows == 2
MaxFactsRows == 6
MaxMonth == 2
MaxFragments == 2

(***************************************************************************)
(* JavaScript values and the conversions the handlers rely on.             *)
(***************************************************************************)
Num(n) == [t |-> "num", n |-> n]
Str(s) == [t |-> "str", s |-> s]
Undef == [t |-> "undef"]
Null == [t |-> "null"]
NaN == [t |-> "nan"]

Digits == <<"0", "1", "2", "3", "4", "5", "6", "7", "8", "9">>
IsDigit(c) == \E i \in 1..10 : Digits[i] = c
DigitVal(c) == (CHOOSE i \in 1..10 : Digits[i] = c) - 1
IsSpace(c) == c \in {" ", "\n", "\t"}

RECURSIVE DigitsValue(_)
DigitsValue(s) ==
  IF s = <<>> THEN 0
  ELSE DigitsValue(SubSeq(s, 1, Len(s) - 1)) * 10 + DigitVal(s[Len(s)])

RECURSIVE NatToStr(_)
NatToStr(n) ==
  IF n < 10 THEN <<Digits[n + 1]>>
  ELSE NatToStr(n \div 10) \o <<Digits[(n % 10) + 1]>>

\* String(n) for an integer n
IntToStr(n) == IF n < 0 THEN <<"-">> \o NatToStr(0 - n) ELSE NatToStr(n)

RECURSIVE TrimLeft(_)
TrimLeft(s) ==
  IF s # <<>> /\ IsSpace(s[1]) THEN TrimLeft(Tail(s)) ELSE s

RECURSIVE TrimRight(_)
TrimRight(s) ==
  IF s # <<>> /\ IsSpace(s[Len(s)]) THEN TrimRight(SubSeq(s, 1, Len(s) - 1))
  ELSE s

\* String.prototype.trim
Trim(s) == TrimRight(TrimLeft(s))

AllDigits(s) == s # <<>> /\ \A i \in 1..Len(s) : IsDigit(s[i])

\* A string that is a decimal integer literal with an optional sign
IsIntLiteral(s) ==
  \/ AllDigits(s)
  \/ Len(s) > 1 /\ s[1] \in {"-", "+"} /\ AllDigits(Tail(s))

IntLiteralValue(s) ==
  IF s[1] = "-" THEN 0 - DigitsValue(Tail(s))
  ELSE IF s[1] = "+" THEN DigitsValue(Tail(s))
  ELSE DigitsValue(s)

\* ToNumber of a string: white space trimmed, "" is 0, anything that is not a
\* numeric literal is NaN
StringToNumber(s) ==
  LET w == Trim(s)
  IN IF w = <<>> THEN Num(0)
     ELSE IF IsIntLiteral(w) THEN Num(IntLiteralValue(w))
     ELSE NaN

\* ToNumber
ToNumber(v) ==
  CASE v.t = "num" -> v
    [] v.t = "str" -> StringToNumber(v.s)
    [] v.t = "null" -> Num(0)
    [] OTHER -> NaN

\* ToBoolean
Truthy(v) ==
  CASE v.t = "num" -> v.n # 0
    [] v.t = "str" -> v.s # <<>>
    [] OTHER -> FALSE

\* v <= 0 (a comparison with NaN is false)
LeqZero(v) == LET x == ToNumber(v) IN x.t = "num" /\ x.n <= 0

\* v > 0
GtZero(v) == LET x == ToNumber(v) IN x.t = "num" /\ x.n > 0

\* v || d
OrElse(v, d) == IF Truthy(v) THEN v ELSE d

\* String(v), as a template literal interpolates it
ToStr(v) ==
  CASE v.t = "num" -> IntToStr(v.n)
    [] v.t = "str" -> v.s
    [] v.t = "null" -> <<"n", "u", "l", "l">>
    [] v.t = "undef" -> <<"u", "n", "d", "e", "f", "i", "n", "e", "d">>
    [] OTHER -> <<"N", "a", "N">>

\* a + b : addition of numbers, concatenation as soon as one side is a string
JsAdd(a, b) ==
  IF a.t = "str" \/ b.t = "str" THEN Str(ToStr(a) \o ToStr(b))
  ELSE LET x == ToNumber(a)
           y == ToNumber(b)
       IN IF x.t = "num" /\ y.t = "num" THEN Num(x.n + y.n) ELSE NaN

\* a - b
JsSub(a, b) ==
  LET x == ToNumber(a)
      y == ToNumber(b)
  IN IF x.t = "num" /\ y.t = "num" THEN Num(x.n - y.n) ELSE NaN

\* Math.max(0, v)
MathMax0(v) ==
  LET x == ToNumber(v)
  IN IF x.t = "num" THEN (IF x.n > 0 THEN x ELSE Num(0)) ELSE NaN

(***************************************************************************)
(* Registration: POST /api/register.  Each request is a slot of regs; the  *)
(* existence check (db.get) and the insert (db.run, after bcrypt.hash) are *)
(* separate callbacks, so requests interleave between them.                *)
(***************************************************************************)
RegSlots == 1..MaxRegs
Emails == {Undef, Str(<<"a">>), Str(<<"b">>)}
Passwords == {Undef, Str(<<"p">>)}

IdleReg == [pc |-> "idle"]

\* SELECT * FROM users WHERE email = ?
UserByEmail(email) == {id \in DOMAIN users : users[id].email = email}

\* the users table's AUTOINCREMENT id
NextUserId == Cardinality(DOMAIN users) + 1

\* lines 39-43: the body is read and validated, then db.get is issued
RegReceive(r, email, password) ==
  /\ regs[r].pc = "idle"
  /\ regs' = [regs EXCEPT ![r] =
       IF ~Truthy(email) \/ ~Truthy(password)
       THEN [pc |-> "done", email |-> email, status |-> 400,
             body |-> [error |-> "Email and password are required"]]
       ELSE [pc |-> "check", email |-> email]]
  /\ UNCHANGED <<users, expenses, nextExpId, now, stats, resp, chat, apiKey,
                 advice>>

\* lines 46-51: the db.get callback
RegCheck(r) ==
  /\ regs[r].pc = "check"
  /\ regs' = [regs EXCEPT ![r] =
       IF UserByEmail(regs[r].email) # {}
       THEN [pc |-> "done", email |-> regs[r].email, status |-> 400,
             body |-> [error |-> "User already exists"]]
       ELSE [pc |-> "hash", email |-> regs[r].email]]
  /\ UNCHANGED <<users, expenses, nextExpId, now, stats, resp, chat, apiKey,
                 advice>>

\* a users table whose email column is not UNIQUE
InsertUserAlways(email) == TRUE

\* email TEXT UNIQUE NOT NULL: the insert fails when the email is taken
InsertUserAllowed(email) == UserByEmail(email) = {}

\* lines 54-76: INSERT INTO users and its callback
RegInsert(r) ==
  /\ regs[r].pc = "hash"
  /\ IF InsertUserAllowed(regs[r].email)
     THEN /\ users' = [id \in DOMAIN users \cup {NextUserId} |->
                 IF id = NextUserId
                 THEN [email |-> regs[r].email, monthly_income |-> Num(0),
                       savings_goal |-> Num(0)]
                 ELSE users[id]]
          /\ regs' = [regs EXCEPT ![r] =
               [pc |-> "done", email |-> regs[r].email, status |-> 201,
                body |-> [message |-> "User created successfully",
                          token |-> NextUserId]]]
     ELSE /\ users' = users
          /\ regs' = [regs EXCEPT ![r] =
               [pc |-> "done", email |-> regs[r].email, status |-> 500,
                body |-> [error |-> "SQLITE_CONSTRAINT: UNIQUE constraint failed: users.email"]]]
  /\ UNCHANGED <<expenses, nextExpId, now, stats, resp, chat, apiKey, advice>>

(***************************************************************************)
(* The expenses table and the handlers over it.  req.userId is what the    *)
(* auth middleware supplies.  A date is the month it falls in: the only    *)
(* use of a date is date >= date('now','start of month') and ORDER BY,     *)
(* and rows inserted later have later timestamps (higher ids).             *)
(***************************************************************************)
IdleStats == [pc |-> "idle"]
IdleChat == [pc |-> "idle"]
NoResp == [op |-> "none"]
NoAdvice == [pc |-> "none"]

\* res.json(...) has written the response: the client takes it.  A handler
\* step runs when no response is waiting to be taken, so resp is always the
\* response of the latest handler step and the tables are as that step left
\* them.
Deliver ==
  /\ resp # NoResp
  /\ resp' = NoResp
  /\ UNCHANGED <<users, regs, expenses, nextExpId, now, stats, chat, apiKey,
                 advice>>

Rent == <<"r", "e", "n", "t">>
Food == <<"f", "o", "o", "d">>
Other == <<"o", "t", "h", "e", "r">>
Abc == <<"a", "b", "c">>

\* what a client may send as the amount of POST /api/expenses
AmountInputs ==
  {Undef, Null, Num(0), Num(0 - 5), Num(30), Str(<<>>), Str(<<"1", "5">>),
   Str(<<"-", "3">>), Str(<<"0">>), Str(Abc)}

ExpenseBodies ==
  [name : {Str(Rent)}, amount : AmountInputs, category : {Undef}]
    \cup {[name |-> Str(Rent), amount |-> Num(30), category |-> Str(Food)],
          [name |-> Undef, amount |-> Num(30), category |-> Undef]}

\* the bodies the statistics are exercised with
StatsBodies ==
  {[name |-> Str(Rent), amount |-> Num(30), category |-> Str(Food)],
   [name |-> Str(Rent), amount |-> Num(15), category |-> Undef],
   [name |-> Str(Rent), amount |-> Str(Abc), category |-> Str(Food)]}

\* the settings the statistics are exercised with
SettingsBodies ==
  {[monthly_income |-> Num(50), savings_goal |-> Num(20)],
   [monthly_income |-> Num(0), savings_goal |-> Num(0)],
   [monthly_income |-> Null, savings_goal |-> Null],
   [monthly_income |-> Undef, savings_goal |-> Num(0 - 10)],
   [monthly_income |-> Num(50), savings_goal |-> Undef],
   [monthly_income |-> Undef, savings_goal |-> Undef]}

\* line 135: !name || !amount || amount <= 0
RejectsExpense(body) ==
  ~Truthy(body.name) \/ ~Truthy(body.amount) \/ LeqZero(body.amount)

\* amount REAL NOT NULL: a text that is a numeric literal is stored as a
\* number, any other text is stored as it is
RealAffinity(v) ==
  IF v.t = "str" /\ IsIntLiteral(Trim(v.s)) THEN Num(IntLiteralValue(Trim(v.s)))
  ELSE v

\* lines 139-141: the row INSERT INTO expenses writes
NewExpenseRow(userId, body) ==
  [id |-> nextExpId, user_id |-> userId, name |-> body.name.s,
   amount |-> RealAffinity(body.amount),
   category |-> OrElse(body.category, Str(Other)).s, date |-> now]

\* lines 132-151: POST /api/expenses; the row is read back (line 145) as
\* the insert wrote it
CreateExpense(userId, body) ==
  /\ resp = NoResp
  /\ IF RejectsExpense(body)
     THEN /\ resp' = [op |-> "create", userId |-> userId, req |-> body,
                      status |-> 400,
                      body |-> [error |-> "Valid name and amount are required"]]
          /\ UNCHANGED <<expenses, nextExpId>>
     ELSE /\ expenses' = expenses \cup {NewExpenseRow(userId, body)}
          /\ nextExpId' = nextExpId + 1
          /\ resp' = [op |-> "create", userId |-> userId, req |-> body,
                      status |-> 201, body |-> NewExpenseRow(userId, body)]
  /\ UNCHANGED <<users, regs, now, stats, chat, apiKey, advice>>

\* a DELETE that forgets the owner: WHERE id = ?
DeleteMatchesAnyOwner(userId, id) == {e \in expenses : e.id = id}

\* line 154: DELETE FROM expenses WHERE id = ? AND user_id = ?
DeleteMatches(userId, id) ==
  {e \in expenses : e.id = id /\ e.user_id = userId}

\* lines 153-159: DELETE /api/expenses/:id
DeleteExpense(userId, id) ==
  /\ resp = NoResp
  /\ expenses' = expenses \ DeleteMatches(userId, id)
  /\ resp' = IF DeleteMatches(userId, id) = {}
             THEN [op |-> "delete", userId |-> userId, id |-> id,
                   status |-> 404, body |-> [error |-> "Expense not found"]]
             ELSE [op |-> "delete", userId |-> userId, id |-> id,
                   status |-> 200,
                   body |-> [message |-> "Expense deleted successfully"]]
  /\ UNCHANGED <<users, regs, nextExpId, now, stats, chat, apiKey, advice>>

\* lines 162-197: PUT /api/user/settings (monthly_income and savings_goal)
UpdateSettings(userId, income, goal) ==
  /\ resp = NoResp
  /\ IF income = Undef /\ goal = Undef
     THEN /\ resp' = [op |-> "settings", userId |-> userId, status |-> 400,
                      body |-> [error |-> "No fields to update"]]
          /\ users' = users
     ELSE /\ users' = [id \in DOMAIN users |->
                 IF id # userId THEN users[id]
                 ELSE [users[id] EXCEPT
                         !.monthly_income = IF income = Undef THEN @ ELSE income,
                         !.savings_goal = IF goal = Undef THEN @ ELSE goal]]
          /\ resp' = [op |-> "settings", userId |-> userId, status |-> 200,
                      body |-> [message |-> "Settings updated successfully"]]
  /\ UNCHANGED <<regs, expenses, nextExpId, now, stats, chat, apiKey, advice>>

\* the calendar month changes
Tick ==
  /\ resp = NoResp
  /\ now < MaxMonth
  /\ now' = now + 1
  /\ UNCHANGED <<users, regs, expenses, nextExpId, stats, resp, chat, apiKey,
                 advice>>

(***************************************************************************)
(* GET /api/stats                                                          *)
(***************************************************************************)
Max(S) == CHOOSE x \in S : \A y \in S : y <= x

\* the number SQLite's SUM reads in a stored amount: a text counts for its
\* longest numeric prefix, 0 when it has none
SqlNumeric(v) ==
  IF v.t = "num" THEN v.n
  ELSE IF v.t # "str" THEN 0
  ELSE LET w == TrimLeft(v.s)
           ks == {k \in 1..Len(w) : IsIntLiteral(SubSeq(w, 1, k))}
       IN IF ks = {} THEN 0 ELSE IntLiteralValue(SubSeq(w, 1, Max(ks)))

\* WHERE user_id = ? AND date >= date('now','start of month')
InMonthRows(userId) ==
  {e \in expenses : e.user_id = userId /\ e.date >= now}

RECURSIVE SqlSum(_)
SqlSum(rows) ==
  IF rows = {} THEN 0
  ELSE LET e == CHOOSE x \in rows : TRUE
       IN SqlNumeric(e.amount) + SqlSum(rows \ {e})

\* GROUP BY category lists the groups in the order of their keys
CategoryOrder == <<Food, Other>>

CategoryOf(rows, i) == {e \in rows : e.category = CategoryOrder[i]}

RECURSIVE GroupRows(_, _)
GroupRows(rows, i) ==
  IF i > Len(CategoryOrder) THEN <<>>
  ELSE (IF CategoryOf(rows, i) = {} THEN <<>>
        ELSE <<[category |-> CategoryOrder[i],
                total |-> Num(SqlSum(CategoryOf(rows, i)))]>>)
       \o GroupRows(rows, i + 1)

\* lines 206-209: SELECT category, SUM(amount) as total ... GROUP BY category
CategoryTotals(userId) == GroupRows(InMonthRows(userId), 1)

RECURSIVE ReduceTotals(_)
\* line 214: categoryTotals.reduce((sum, cat) => sum + cat.total, 0)
ReduceTotals(cats) ==
  IF cats = <<>> THEN Num(0)
  ELSE JsAdd(ReduceTotals(SubSeq(cats, 1, Len(cats) - 1)), cats[Len(cats)].total)

\* the saved amount without the clamp at 0
SavedAmountUnclamped(user, totalExpenses) ==
  JsSub(OrElse(user.monthly_income, Num(0)), totalExpenses)

\* line 215: Math.max(0, (user.monthly_income || 0) - totalExpenses)
SavedAmount(user, totalExpenses) ==
  MathMax0(JsSub(OrElse(user.monthly_income, Num(0)), totalExpenses))

\* line 216: a percentage is the fraction num/den (den > 0)
GoalPercentage(user, saved) ==
  IF GtZero(user.savings_goal)
  THEN (IF saved.n * 100 > 100 * user.savings_goal.n
        THEN [num |-> 100, den |-> 1]
        ELSE [num |-> saved.n * 100, den |-> user.savings_goal.n])
  ELSE [num |-> 0, den |-> 1]

\* lines 218-225: the snapshot sent
StatsBody(user, cats) ==
  LET totalExpenses == ReduceTotals(cats)
      saved == SavedAmount(user, totalExpenses)
  IN [monthly_income |-> user.monthly_income,
      savings_goal |-> user.savings_goal,
      total_expenses |-> totalExpenses,
      saved_amount |-> saved,
      goal_percentage |-> GoalPercentage(user, saved),
      category_totals |-> cats]

\* lines 199-203: the request arrives and the db.get callback runs
StatsReadUser(userId) ==
  /\ stats.pc = "idle"
  /\ resp = NoResp
  /\ IF userId \in DOMAIN users
     THEN /\ stats' = [pc |-> "rows", userId |-> userId, user |-> users[userId]]
          /\ resp' = resp
     ELSE /\ stats' = stats
          /\ resp' = [op |-> "stats", userId |-> userId, status |-> 404,
                      body |-> [error |-> "User not found"]]
  /\ UNCHANGED <<users, regs, expenses, nextExpId, now, chat, apiKey, advice>>

\* lines 205-226: the db.all callback
StatsRespond ==
  /\ stats.pc = "rows"
  /\ resp = NoResp
  /\ resp' = [op |-> "stats", userId |-> stats.userId, status |-> 200,
              body |-> StatsBody(stats.user, CategoryTotals(stats.userId))]
  /\ stats' = [pc |-> "idle"]
  /\ UNCHANGED <<users, regs, expenses, nextExpId, now, chat, apiKey, advice>>

\* ids a token may carry: the registered users and one that is not
AuthIds == 1..3
LedgerUsers == 1..2


\* the tables as initializeDatabase creates them, no request in flight
InitReg ==
  /\ users = <<>>
  /\ regs = [r \in RegSlots |-> IdleReg]
  /\ expenses = {}
  /\ nextExpId = 1
  /\ now = 1
  /\ stats = IdleStats
  /\ resp = NoResp
  /\ chat = IdleChat
  /\ apiKey = FALSE
  /\ advice = NoAdvice

NextReg ==
  \E r \in RegSlots :
    \/ \E email \in Emails, password \in Passwords : RegReceive(r, email, password)
    \/ RegCheck(r)
    \/ RegInsert(r)

SpecReg == InitReg /\ [][NextReg]_vars

(***************************************************************************)
(* generateMockAIResponse.  The rupee sign of the templates is written Rs  *)
(* and the bullet *, the module's strings being ASCII.  A product with 0.2 *)
(* or 0.1 is the exact decimal; the rounding of doubles is not modelled.   *)
(***************************************************************************)
UpperCase == <<"A", "B", "C", "D", "E", "F", "G", "H", "I", "J", "K", "L", "M",
               "N", "O", "P", "Q", "R", "S", "T", "U", "V", "W", "X", "Y", "Z">>
LowerCase == <<"a", "b", "c", "d", "e", "f", "g", "h", "i", "j", "k", "l", "m",
               "n", "o", "p", "q", "r", "s", "t", "u", "v", "w", "x", "y", "z">>

LowerChar(c) ==
  IF \E i \in 1..26 : UpperCase[i] = c
  THEN LowerCase[CHOOSE i \in 1..26 : UpperCase[i] = c]
  ELSE c

\* a question left in the case it was asked in
KeepCase(s) == s

\* String.prototype.toLowerCase
ToLowerCase(s) == [i \in 1..Len(s) |-> LowerChar(s[i])]

\* String.prototype.includes
Includes(s, k) ==
  \E i \in 1..(Len(s) - Len(k) + 1) : SubSeq(s, i, i + Len(k) - 1) = k

KwSave == <<"s", "a", "v", "e">>
KwSaving == <<"s", "a", "v", "i", "n", "g">>
KwBudget == <<"b", "u", "d", "g", "e", "t">>
KwSpend == <<"s", "p", "e", "n", "d">>
KwInvest == <<"i", "n", "v", "e", "s", "t">>
KwGrow == <<"g", "r", "o", "w">>
KwDebt == <<"d", "e", "b", "t">>
KwLoan == <<"l", "o", "a", "n">>

SavingsOpening == "Based on your current financial situation:\n* Monthly Income: Rs"
BudgetOpening == "Your spending breakdown:\n"
InvestOpening == "For your income of Rs"
DebtOpening == "For debt management:\n* Prioritize high-interest debts first\n* Consider debt consolidation if you have multiple loans\n* Aim to keep total EMI under 40% of your monthly income"
GenericOpening == "I understand you're asking about \""

\* line 386: Math.min(5000, ...)
SipCap == 5000

\* the decimal text of k / 10, k >= 0
TenthsToStr(k) ==
  IF k % 10 = 0 THEN IntToStr(k \div 10)
  ELSE IntToStr(k \div 10) \o <<".">> \o <<Digits[(k % 10) + 1]>>

\* String(v * m / 10) for a number v >= 0
TimesTenths(v, m) ==
  LET x == ToNumber(v)
  IN IF x.t = "num" THEN TenthsToStr(x.n * m) ELSE ToStr(NaN)

\* String(v * 4)
TimesFour(v) ==
  LET x == ToNumber(v)
  IN IF x.t = "num" THEN IntToStr(x.n * 4) ELSE ToStr(NaN)

\* String(Math.min(5000, income * 0.1))
SipAmount(income) ==
  LET x == ToNumber(income)
  IN IF x.t # "num" THEN ToStr(NaN)
     ELSE IF x.n > SipCap * 10 THEN IntToStr(SipCap)
     ELSE TenthsToStr(x.n)

RECURSIVE ReduceAmounts(_)
\* lines 262 and 356: expenses.reduce((sum, exp) => sum + exp.amount, 0)
ReduceAmounts(exps) ==
  IF exps = <<>> THEN Num(0)
  ELSE JsAdd(ReduceAmounts(SubSeq(exps, 1, Len(exps) - 1)), exps[Len(exps)].amount)

\* lines 354-357: the facts the templates interpolate
MockFacts(user, exps) ==
  LET income == OrElse(user.monthly_income, Num(0))
      totalExpenses == ReduceAmounts(exps)
  IN [income |-> income,
      goal |-> OrElse(user.savings_goal, Num(0)),
      totalExpenses |-> totalExpenses,
      saved |-> MathMax0(JsSub(income, totalExpenses))]

\* the categories of exps[1..n] in the order of their first appearance
RECURSIVE CategoryKeys(_, _)
CategoryKeys(exps, n) ==
  IF n = 0 THEN <<>>
  ELSE LET before == CategoryKeys(exps, n - 1)
       IN IF \E i \in 1..Len(before) : before[i] = exps[n].category
          THEN before
          ELSE Append(before, exps[n].category)

\* categories[cat] after exps[1..n]: (categories[cat] || 0) + exp.amount
RECURSIVE CategoryAmount(_, _, _)
CategoryAmount(exps, n, cat) ==
  IF n = 0 THEN Undef
  ELSE IF exps[n].category = cat
       THEN JsAdd(OrElse(CategoryAmount(exps, n - 1, cat), Num(0)), exps[n].amount)
       ELSE CategoryAmount(exps, n - 1, cat)

\* lines 376-378: one line per category
RECURSIVE BreakdownLines(_, _, _)
BreakdownLines(exps, keys, i) ==
  IF i > Len(keys) THEN <<>>
  ELSE <<"* ">> \o keys[i] \o <<": Rs">>
         \o ToStr(CategoryAmount(exps, Len(exps), keys[i])) \o <<"\n">>
         \o BreakdownLines(exps, keys, i + 1)

\* lines 362-367
SavingsTemplate(f) ==
  <<SavingsOpening>> \o ToStr(f.income) \o <<"\n* Current Savings: Rs">>
    \o ToStr(f.saved) \o <<"\n* Savings Goal: Rs">> \o ToStr(f.goal)
    \o <<"\n\nI recommend setting aside 20% of your income (Rs">>
    \o TimesTenths(f.income, 2)
    \o <<") each month. Consider automating transfers to your savings account right after you receive your income.">>

\* lines 370-381
BudgetTemplate(exps) ==
  <<BudgetOpening>>
    \o BreakdownLines(exps, CategoryKeys(exps, Len(exps)), 1)
    \o <<"\nTry the 50/30/20 rule: 50% needs, 30% wants, 20% savings.">>

\* lines 384-387
InvestTemplate(f) ==
  <<InvestOpening>> \o ToStr(f.income)
    \o <<", consider these investment options:\n1. Emergency Fund: 3-6 months of expenses (Rs">>
    \o TimesFour(f.totalExpenses) \o <<")\n2. Mutual Funds: Start with Rs">>
    \o SipAmount(f.income)
    \o <<" monthly SIP\n3. Fixed Deposits: Safe option for short-term goals">>

\* lines 390-393
DebtTemplate == <<DebtOpening>>

\* lines 396-401
GenericTemplate(question, f) ==
  <<GenericOpening>> \o question
    \o <<"\". As your financial advisor, I can see:\n* Your monthly income: Rs">>
    \o ToStr(f.income) \o <<"\n* Current expenses: Rs">> \o ToStr(f.totalExpenses)
    \o <<"\n* Savings progress: Rs">> \o ToStr(f.saved) \o <<" of Rs">>
    \o ToStr(f.goal)
    \o <<" goal\n\nFor personalized advice, consider tracking all your expenses and setting clear financial goals. Would you like specific advice on savings, budgeting, or investments?">>

\* lines 353-403
GenerateMockAIResponse(question, user, exps) ==
  LET f == MockFacts(user, exps)
      q == ToLowerCase(question)
  IN IF Includes(q, KwSave) \/ Includes(q, KwSaving) THEN SavingsTemplate(f)
     ELSE IF Includes(q, KwBudget) \/ Includes(q, KwSpend) THEN BudgetTemplate(exps)
     ELSE IF Includes(q, KwInvest) \/ Includes(q, KwGrow) THEN InvestTemplate(f)
     ELSE IF Includes(q, KwDebt) \/ Includes(q, KwLoan) THEN DebtTemplate
     ELSE GenericTemplate(question, f)

\* the pieces questions are made of
Fragments ==
  {<<"S", "a", "v", "e">>, <<"s", "a", "v">>, <<"I", "N", "G">>,
   <<"B", "u", "d", "g", "e", "t">>,
   KwSpend, <<"i", "n", "V", "e", "s", "t">>, <<"G", "R", "O", "W">>, KwDebt,
   <<"L", "o", "a", "n">>, <<" ">>, <<"h", "i", "?">>}

RECURSIVE QuestionsOf(_)
QuestionsOf(n) ==
  IF n = 0 THEN {<<>>}
  ELSE LET shorter == QuestionsOf(n - 1)
       IN shorter \cup {q \o f : q \in shorter, f \in Fragments}

Questions == QuestionsOf(MaxFragments)

AdviceUsers ==
  {[email |-> Str(<<"a">>), monthly_income |-> Num(50), savings_goal |-> Num(20)],
   [email |-> Str(<<"a">>), monthly_income |-> Null, savings_goal |-> Null]}

AdviceExpenses ==
  {<<>>,
   <<[name |-> Rent, amount |-> Num(30), category |-> Food],
     [name |-> Rent, amount |-> Num(15), category |-> Other],
     [name |-> Rent, amount |-> Num(30), category |-> Food]>>,
   <<[name |-> Rent, amount |-> Num(30), category |-> Other],
     [name |-> Rent, amount |-> Str(Abc), category |-> Other]>>}

\* a question, a user row and an expense list are handed to the function
InitAdvice ==
  /\ users = <<>>
  /\ regs = [r \in RegSlots |-> IdleReg]
  /\ expenses = {}
  /\ nextExpId = 1
  /\ now = 1
  /\ stats = IdleStats
  /\ resp = NoResp
  /\ chat = IdleChat
  /\ apiKey = FALSE
  /\ advice \in [pc : {"asked"}, question : Questions, user : AdviceUsers,
                 expenses : AdviceExpenses]

\* the function is applied
Advise ==
  /\ advice.pc = "asked"
  /\ advice' = [pc |-> "answered", question |-> advice.question,
                user |-> advice.user, expenses |-> advice.expenses,
                text |-> GenerateMockAIResponse(advice.question, advice.user,
                                                advice.expenses)]
  /\ UNCHANGED <<users, regs, expenses, nextExpId, now, stats, resp, chat, apiKey>>

NextAdvice == Advise

SpecAdvice == InitAdvice /\ [][NextAdvice]_vars

(***************************************************************************)
(* POST /api/chat.  The db.get callback, the db.all callback and the       *)
(* continuation after the awaited fetch are separate steps.                *)
(***************************************************************************)
\* line 257: LIMIT 5
ChatLimit == 5

\* the row ORDER BY date DESC lists first: the latest date, the latest
\* inserted of the rows of one date
LatestRow(rows) ==
  CHOOSE e \in rows :
    \A o \in rows : o.date < e.date \/ (o.date = e.date /\ o.id <= e.id)

RECURSIVE TakeLatest(_, _)
TakeLatest(rows, n) ==
  IF rows = {} \/ n = 0 THEN <<>>
  ELSE LET e == LatestRow(rows)
       IN <<[name |-> e.name, amount |-> e.amount, category |-> e.category]>>
            \o TakeLatest(rows \ {e}, n - 1)

\* lines 254-258: SELECT name, amount, category ... ORDER BY date DESC LIMIT 5
RecentRows(userId) == TakeLatest(InMonthRows(userId), ChatLimit)

\* line 271: user.monthly_income ? ((saved / user.monthly_income) * 100).toFixed(1) : 0
\* (an income > 0; rounded half up to one decimal)
SavingsRate(user, saved) ==
  IF ~Truthy(user.monthly_income) THEN <<"0">>
  ELSE LET a == ToNumber(saved)
           b == ToNumber(user.monthly_income)
       IN IF a.t # "num" \/ b.t # "num" THEN ToStr(NaN)
          ELSE IF b.n < 0 THEN <<"0", ".", "0">>
          ELSE LET t == (a.n * 2000 + b.n) \div (2 * b.n)
               IN IntToStr(t \div 10) \o <<".">> \o <<Digits[(t % 10) + 1]>>

\* line 272: expenses.slice(0, 5).map(...).join(', ')
RECURSIVE RecentList(_, _)
RecentList(exps, i) ==
  IF i > Len(exps) \/ i > 5 THEN <<>>
  ELSE (IF i > 1 THEN <<", ">> ELSE <<>>)
         \o exps[i].name \o <<": Rs">> \o ToStr(exps[i].amount) \o <<" (">>
         \o exps[i].category \o <<")">> \o RecentList(exps, i + 1)

\* lines 265-273
FinancialContext(user, exps, totalExpenses, saved) ==
  <<"\nUser Financial Summary:\n- Monthly Income: Rs">>
    \o ToStr(OrElse(user.monthly_income, Num(0)))
    \o <<"\n- Savings Goal: Rs">> \o ToStr(OrElse(user.savings_goal, Num(0)))
    \o <<"\n- Current Month Expenses: Rs">> \o ToStr(OrElse(totalExpenses, Num(0)))
    \o <<"\n- Amount Saved: Rs">> \o ToStr(OrElse(saved, Num(0)))
    \o <<"\n- Savings Rate: ">> \o SavingsRate(user, saved)
    \o <<"%\n- Recent Expenses: ">> \o RecentList(exps, 1) \o <<"\n">>

\* lines 288-295: the prompt sent to the model
Prompt(context, message) ==
  <<"\nYou are FineFlex AI, a helpful financial advisor.\nUse this financial context to give personalized advice:\n">>
    \o context
    \o <<"\n\nBe concise, friendly, and focus on practical, actionable tips.\nUser's question: ">>
    \o message \o <<"\n">>

ChatMessages ==
  {Undef, Str(<<>>), Str(<<"S", "a", "v", "e", "?">>), Str(<<"h", "i", "?">>)}

\* lines 232-251: the request arrives, is validated, and the db.get
\* callback runs
ChatReadUser(userId, message) ==
  /\ chat.pc = "idle"
  /\ resp = NoResp
  /\ IF ~Truthy(message)
     THEN /\ resp' = [op |-> "chat", userId |-> userId, message |-> message,
                      status |-> 400, body |-> [error |-> "Message is required"]]
          /\ chat' = chat
     ELSE IF ~apiKey
     THEN /\ resp' = [op |-> "chat", userId |-> userId, message |-> message,
                      status |-> 500,
                      body |-> [error |-> "Gemini API key not configured. Please add GEMINI_API_KEY to your .env file."]]
          /\ chat' = chat
     ELSE IF userId \notin DOMAIN users
     THEN /\ resp' = [op |-> "chat", userId |-> userId, message |-> message,
                      status |-> 404, body |-> [error |-> "User not found"]]
          /\ chat' = chat
     ELSE /\ chat' = [pc |-> "rows", userId |-> userId, message |-> message,
                      user |-> users[userId]]
          /\ resp' = resp
  /\ UNCHANGED <<users, regs, expenses, nextExpId, now, stats, apiKey, advice>>

\* lines 259-306: the db.all callback, up to the awaited fetch
ChatReadExpenses ==
  /\ chat.pc = "rows"
  /\ resp = NoResp
  /\ LET exps == RecentRows(chat.userId)
         totalExpenses == ReduceAmounts(exps)
         saved == SavedAmount(chat.user, totalExpenses)
     IN chat' = [pc |-> "fetch", userId |-> chat.userId, message |-> chat.message,
                 user |-> chat.user, expenses |-> exps,
                 totalExpenses |-> totalExpenses, saved |-> saved,
                 prompt |-> Prompt(FinancialContext(chat.user, exps, totalExpenses, saved),
                                   chat.message.s)]
  /\ UNCHANGED <<users, regs, expenses, nextExpId, now, stats, resp, apiKey, advice>>

\* what the fetch may come to: it throws (or times out), a non-success
\* status (whose error body parses or not), a success whose body does not
\* parse, a success with a parsed body.  Of the body only the three places
\* a text is looked for matter: candidates[0].content.parts[0].text,
\* candidates[0].output_text, candidates[0].content.text (undefined when a
\* link of the chain is missing).
GeminiPayloads ==
  {[parts |-> Undef, output |-> Undef, content |-> Undef],
   [parts |-> Str(<<" ", "o", "k", "\n">>), output |-> Undef, content |-> Undef],
   [parts |-> Str(<<>>), output |-> Str(<<"o", "u", "t">>), content |-> Undef],
   [parts |-> Undef, output |-> Undef, content |-> Str(<<"c">>)],
   [parts |-> Str(<<>>), output |-> Str(<<>>), content |-> Str(<<>>)],
   [parts |-> Num(0), output |-> Null, content |-> Undef],
   [parts |-> Str(<<" ">>), output |-> Undef, content |-> Undef],
   [parts |-> Num(7), output |-> Undef, content |-> Undef]}

FetchOutcomes ==
  {[kind |-> "throw"], [kind |-> "notok", parses |-> TRUE],
   [kind |-> "notok", parses |-> FALSE], [kind |-> "badjson"]}
    \cup {[kind |-> "ok", data |-> d] : d \in GeminiPayloads}

Apology == "Sorry, I couldn't generate a complete response this time. Try rephrasing your question!"

\* lines 318-322: a || b || c || null
ExtractText(data) ==
  IF Truthy(data.parts) THEN data.parts
  ELSE IF Truthy(data.output) THEN data.output
  ELSE IF Truthy(data.content) THEN data.content
  ELSE Null

\* a catch block that answers with the error
ChatCatchError(message, user, exps) == [error |-> "Internal Server Error"]

\* a catch block that hands the Advice Engine no expenses
ChatCatchNoExpenses(message, user, exps) ==
  [response |-> GenerateMockAIResponse(message.s, user, <<>>)]

\* a catch block that answers with the apology
ChatCatchApology(message, user, exps) == [response |-> <<Apology>>]

\* lines 335-341: the catch block
ChatCatch(message, user, exps) ==
  [response |-> GenerateMockAIResponse(message.s, user, exps)]

\* an answer that is the empty text
EmptyBody == [response |-> <<>>]

\* lines 326-330: no text was extracted
NoTextBody == [response |-> <<Apology>>]

\* lines 310-341: the body sent once the fetch has settled
ChatBody(outcome, message, user, exps) ==
  IF outcome.kind # "ok" THEN ChatCatch(message, user, exps)
  ELSE LET aiResponse == ExtractText(outcome.data)
       IN IF ~Truthy(aiResponse) THEN NoTextBody
          ELSE IF aiResponse.t = "str" THEN [response |-> Trim(aiResponse.s)]
          ELSE ChatCatch(message, user, exps)

\* lines 310-341: the continuation after the fetch
ChatRespond(outcome) ==
  /\ chat.pc = "fetch"
  /\ resp = NoResp
  /\ resp' = [op |-> "chat", userId |-> chat.userId, message |-> chat.message,
              user |-> chat.user, expenses |-> chat.expenses,
              outcome |-> outcome, status |-> 200,
              body |-> ChatBody(outcome, chat.message, chat.user, chat.expenses)]
  /\ chat' = IdleChat
  /\ UNCHANGED <<users, regs, expenses, nextExpId, now, stats, apiKey, advice>>

ChatBodies ==
  {[name |-> Str(Rent), amount |-> Num(30), category |-> Str(Food)],
   [name |-> Str(Rent), amount |-> Num(15), category |-> Undef],
   [name |-> Str(Rent), amount |-> Str(Abc), category |-> Undef]}

FactsBodies ==
  {[name |-> Str(Rent), amount |-> Num(10), category |-> Str(Food)],
   [name |-> Str(Rent), amount |-> Num(20), category |-> Undef]}

\* a database that holds two registered users, the second with no income
\* and no goal set, and no expense; the process was started with or without
\* GEMINI_API_KEY
InitChat ==
  /\ users = [id \in LedgerUsers |->
                [email |-> Str(<<"u", IntToStr(id)[1]>>),
                 monthly_income |-> IF id = 1 THEN Num(50) ELSE Null,
                 savings_goal |-> IF id = 1 THEN Num(20) ELSE Null]]
  /\ regs = [r \in RegSlots |-> IdleReg]
  /\ expenses = {}
  /\ nextExpId = 1
  /\ now = 1
  /\ stats = IdleStats
  /\ resp = NoResp
  /\ chat = IdleChat
  /\ apiKey \in BOOLEAN
  /\ advice = NoAdvice

NextChat ==
  \/ /\ nextExpId <= MaxChatRows
     /\ \E userId \in LedgerUsers, body \in ChatBodies : CreateExpense(userId, body)
  \/ Tick
  \/ \E userId \in AuthIds, message \in ChatMessages : ChatReadUser(userId, message)
  \/ ChatReadExpenses
  \/ \E outcome \in FetchOutcomes : ChatRespond(outcome)
  \/ Deliver

SpecChat == InitChat /\ [][NextChat]_vars

NextFacts ==
  \/ /\ nextExpId <= MaxFactsRows
     /\ \E userId \in LedgerUsers, body \in FactsBodies : CreateExpense(userId, body)
  \/ Tick
  \/ \E userId \in LedgerUsers : ChatReadUser(userId, Str(<<"h", "i", "?">>))
  \/ ChatReadExpenses
  \/ ChatRespond([kind |-> "throw"])
  \/ Deliver

SpecFacts == InitChat /\ [][NextFacts]_vars

\* a database that holds two registered users and no expense
InitLedger ==
  /\ users = [id \in LedgerUsers |->
                [email |-> Str(<<"u", IntToStr(id)[1]>>),
                 monthly_income |-> Num(50), savings_goal |-> Num(20)]]
  /\ regs = [r \in RegSlots |-> IdleReg]
  /\ expenses = {}
  /\ nextExpId = 1
  /\ now = 1
  /\ stats = IdleStats
  /\ resp = NoResp
  /\ chat = IdleChat
  /\ apiKey = FALSE
  /\ advice = NoAdvice

NextLedger ==
  \/ /\ nextExpId <= MaxLedgerRows
     /\ \E userId \in LedgerUsers, body \in ExpenseBodies : CreateExpense(userId, body)
  \/ \E userId \in LedgerUsers, id \in 1..(MaxLedgerRows + 1) : DeleteExpense(userId, id)
  \/ Tick
  \/ Deliver

SpecLedger == InitLedger /\ [][NextLedger]_vars

NextStats ==
  \/ /\ nextExpId <= MaxStatsRows
     /\ \E userId \in LedgerUsers, body \in StatsBodies : CreateExpense(userId, body)
  \/ \E b \in SettingsBodies : UpdateSettings(1, b.monthly_income, b.savings_goal)
  \/ Tick
  \/ \E userId \in AuthIds : StatsReadUser(userId)
  \/ StatsRespond
  \/ Deliver

SpecStats == InitLedger /\ [][NextStats]_vars

(***************************************************************************)
(* Properties.                                                             *)
(***************************************************************************)
\* the number an amount stands for; a stored text stands for the number the
\* database reads in it (0 for a text such as "abc")
AmountValue(v) == IF v.t = "num" THEN v.n ELSE SqlNumeric(v)

RECURSIVE SumOfAmounts(_)
SumOfAmounts(rows) ==
  IF rows = {} THEN 0
  ELSE LET e == CHOOSE x \in rows : TRUE
       IN AmountValue(e.amount) + SumOfAmounts(rows \ {e})

\* the expenses of a user dated in the current month
ExpensesOfMonth(userId) ==
  {e \in expenses : e.user_id = userId /\ e.date = now}

\* C1: a statistics response reports total_expenses = the sum of the user's
\* in-month amounts, saved_amount = max(0, income - total_expenses) for an
\* income >= 0, and goal_percentage = 0 for a goal <= 0 and
\* min(100, saved_amount / goal * 100) otherwise, hence within [0,100]; with
\* no in-month expense the total is 0 and the saved amount is the income.
C1_StatsSnapshot ==
  (resp.op = "stats" /\ resp.status = 200) =>
    LET b == resp.body
        E == ExpensesOfMonth(resp.userId)
        total == SumOfAmounts(E)
        I == AmountValue(b.monthly_income)
        G == AmountValue(b.savings_goal)
        S == IF I - total > 0 THEN I - total ELSE 0
        p == b.goal_percentage
    IN /\ b.total_expenses = Num(total)
       /\ I >= 0 => b.saved_amount = Num(S)
       /\ p.den > 0 /\ 0 <= p.num /\ p.num <= 100 * p.den
       /\ G <= 0 => p.num = 0
       /\ (G > 0 /\ I >= 0) =>
            IF S >= G THEN p.num = 100 * p.den ELSE p.num * G = S * 100 * p.den
       /\ (E = {} /\ I >= 0) => (b.total_expenses = Num(0) /\ b.saved_amount = Num(I))

\* C1's case: a snapshot over two in-month expenses of two categories that
\* leaves 5 of an income of 50 (25% of the goal of 20)
C1_Witness ==
  /\ resp.op = "stats" /\ resp.status = 200
  /\ Len(resp.body.category_totals) = 2
  /\ resp.body.saved_amount = Num(5)
  /\ resp.body.goal_percentage.num * 4 = resp.body.goal_percentage.den * 100

\* an amount the data model allows: a number > 0
ValidAmount(v) == GtZero(v)

\* C4: every stored expense has a numeric amount > 0, and a create request
\* with an invalid amount is answered with an error.
C4_StoredAmountsPositive ==
  /\ \A e \in expenses : e.amount.t = "num" /\ e.amount.n > 0
  /\ (resp.op = "create" /\ ~ValidAmount(resp.req.amount)) =>
       (resp.status = 400 /\ "error" \in DOMAIN resp.body)

\* C8: a delete by user U of id X removes exactly the expense X when U owns
\* it, and otherwise answers not-found and leaves the store as it is; no
\* request removes an expense of another user.
C8_DeleteScoped ==
  [][ /\ (resp = NoResp /\ resp'.op = "delete") =>
           IF \E e \in expenses : e.id = resp'.id /\ e.user_id = resp'.userId
           THEN /\ expenses' = {e \in expenses : e.id # resp'.id}
                /\ resp'.status = 200
                /\ "error" \notin DOMAIN resp'.body
           ELSE /\ expenses' = expenses
                /\ resp'.status = 404
                /\ "error" \in DOMAIN resp'.body
      /\ \A e \in expenses \ expenses' :
           resp'.op = "delete" /\ resp'.userId = e.user_id ]_vars

\* C8's case: a user asked to delete an expense of another user, was told
\* not-found, and the expense is still there
C8_Witness ==
  /\ resp.op = "delete" /\ resp.status = 404
  /\ \E e \in expenses : e.id = resp.id /\ e.user_id # resp.userId

RegDone(email) == {r \in RegSlots : regs[r].pc = "done" /\ regs[r].email = email}

\* C10: for every email, at most one user row holds it, at most one register
\* request was answered with success and a token, and every other answered
\* request for it got an error.
C10_EmailsUnique ==
  \A email \in Emails :
    /\ Cardinality(UserByEmail(email)) <= 1
    /\ Cardinality({r \in RegDone(email) : regs[r].status = 201}) <= 1
    /\ \A r \in RegDone(email) :
         IF regs[r].status = 201
         THEN "token" \in DOMAIN regs[r].body /\ "error" \notin DOMAIN regs[r].body
         ELSE "error" \in DOMAIN regs[r].body /\ "token" \notin DOMAIN regs[r].body

\* C10's case: two requests for one email both passed the existence check;
\* one was answered 201 and the other was refused by the insert
C10_Witness ==
  \E r1, r2 \in RegSlots :
    /\ regs[r1].pc = "done" /\ regs[r2].pc = "done"
    /\ regs[r1].email = regs[r2].email
    /\ regs[r1].status = 201 /\ regs[r2].status = 500

\* two characters that are the same letter, whatever their case
SameLetter(a, b) ==
  \/ a = b
  \/ \E i \in 1..26 : {a, b} = {UpperCase[i], LowerCase[i]}

\* the question contains the keyword, case-insensitively
ContainsWord(q, k) ==
  \E i \in 1..(Len(q) - Len(k) + 1) :
    \A j \in 1..Len(k) : SameLetter(q[i + j - 1], k[j])

KeywordSets ==
  <<{KwSave, KwSaving}, {KwBudget, KwSpend}, {KwInvest, KwGrow}, {KwDebt, KwLoan}>>

TemplateOpenings ==
  <<SavingsOpening, BudgetOpening, InvestOpening, DebtOpening, GenericOpening>>

MatchingSets(q) == {i \in 1..4 : \E k \in KeywordSets[i] : ContainsWord(q, k)}

Min(S) == CHOOSE x \in S : \A y \in S : x <= y

\* the number of the template the priority order gives a question
TemplateFor(q) == IF MatchingSets(q) = {} THEN 5 ELSE Min(MatchingSets(q))

\* C3: the answer to a question is the template of the lowest-numbered
\* keyword set the question contains, case-insensitively (savings, budget,
\* investment, debt), the generic template when it contains none.
C3_KeywordPriority ==
  advice.pc = "answered" =>
    advice.text[1] = TemplateOpenings[TemplateFor(advice.question)]

\* C3's case: a question that contains "save" in mixed case and "budget"
\* was answered with the savings template
C3_Witness ==
  /\ advice.pc = "answered"
  /\ advice.question = <<"S", "a", "v", "e", "B", "u", "d", "g", "e", "t">>
  /\ advice.text[1] = SavingsOpening

\* the chat request got as far as the external call
ChatCalled == resp.op = "chat" /\ "outcome" \in DOMAIN resp

\* the external call failed: the fetch threw or timed out, the status was
\* not a success, or the body could not be parsed
CallFailed == ChatCalled /\ resp.outcome.kind \in {"throw", "notok", "badjson"}

\* the external call succeeded with a parsed body
CallSucceeded == ChatCalled /\ resp.outcome.kind = "ok"

\* none of the places of the first candidate holds a text
NoTextIn(data) ==
  ~Truthy(data.parts) /\ ~Truthy(data.output) /\ ~Truthy(data.content)

\* the Advice Engine output for the question and the facts of the request
AdviceFor(r) == GenerateMockAIResponse(r.message.s, r.user, r.expenses)

\* C2: when the external call of a chat request fails, the response has no
\* error field and its text is the Advice Engine output for the question,
\* the user row and the expenses of the request.
C2_FailureFallsBack ==
  CallFailed =>
    /\ resp.status = 200
    /\ DOMAIN resp.body = {"response"}
    /\ resp.body.response = AdviceFor(resp)

\* C2's case: a non-success status whose error body does not parse, for a
\* request that had read an expense
C2_Witness ==
  /\ CallFailed
  /\ resp.outcome = [kind |-> "notok", parses |-> FALSE]
  /\ resp.expenses # <<>>
  /\ resp.body.response[1] = SavingsOpening

\* C5 as claimed: every chat request with a non-empty message from an
\* existing user, the API key configured or not, ends with a response that
\* carries a text and no error.
C5_AlwaysAdvice ==
  (resp.op = "chat" /\ Truthy(resp.message) /\ resp.userId \in DOMAIN users) =>
    ("response" \in DOMAIN resp.body /\ "error" \notin DOMAIN resp.body)

\* C5 amended: with the API key configured, every chat request with a
\* non-empty message from an existing user ends with status 200, a response
\* text and no error (the Advice Engine output when the call failed); with
\* no API key configured it ends with status 500 and an error.
C5_AdviceWhenKeyConfigured ==
  (resp.op = "chat" /\ Truthy(resp.message) /\ resp.userId \in DOMAIN users) =>
    IF apiKey
    THEN /\ resp.status = 200
         /\ DOMAIN resp.body = {"response"}
         /\ CallFailed => resp.body.response = AdviceFor(resp)
    ELSE /\ resp.status = 500
         /\ DOMAIN resp.body = {"error"}

\* C5's case: the key is configured, the fetch threw, the user got advice
C5_Witness ==
  /\ apiKey /\ CallFailed /\ resp.outcome.kind = "throw"
  /\ resp.userId \in DOMAIN users
  /\ resp.body.response = AdviceFor(resp)

\* C6: when the call succeeds and no text can be extracted, the response is
\* the apology, with no error field and a text that is not empty.
C6_NoTextApology ==
  (CallSucceeded /\ NoTextIn(resp.outcome.data)) =>
    /\ resp.status = 200
    /\ DOMAIN resp.body = {"response"}
    /\ resp.body.response = <<Apology>>
    /\ resp.body.response # <<>>

\* C6's case: a success whose three text places are empty strings
C6_Witness ==
  /\ CallSucceeded
  /\ resp.outcome.data = [parts |-> Str(<<>>), output |-> Str(<<>>), content |-> Str(<<>>)]
  /\ resp.body.response = <<Apology>>

\* C7 as claimed: a success with no extractable text is answered with the
\* Advice Engine output, like a failed call.
C7_NoTextFallsBack ==
  (CallSucceeded /\ NoTextIn(resp.outcome.data)) =>
    resp.body.response = AdviceFor(resp)

\* C7 amended: the Advice Engine output is the answer exactly when the call
\* failed or the extracted value is not a string; a success with no
\* extractable text is no fallback trigger and is never answered with the
\* Advice Engine output.
C7_FallbackTriggers ==
  ChatCalled =>
    /\ (resp.body.response = AdviceFor(resp)) <=>
         \/ CallFailed
         \/ /\ CallSucceeded
            /\ \E v \in {resp.outcome.data.parts, resp.outcome.data.output,
                         resp.outcome.data.content} : Truthy(v)
            /\ ExtractText(resp.outcome.data).t # "str"
    /\ (CallSucceeded /\ NoTextIn(resp.outcome.data)) =>
         resp.body.response # AdviceFor(resp)

\* C7's case: one request context answered after a success without text,
\* where the answer is not what the Advice Engine gives
C7_Witness ==
  /\ CallSucceeded /\ NoTextIn(resp.outcome.data)
  /\ resp.expenses # <<>>
  /\ resp.body.response # AdviceFor(resp)

\* C9: the expense total and the saved amount a chat request computes for
\* its context, and those the Advice Engine computes from the expenses it is
\* handed, are the statistics' total_expenses and saved_amount for the same
\* user and the same tables.
C9_ChatFactsAreStats ==
  [][ (chat.pc = "rows" /\ chat'.pc = "fetch") =>
        LET snap == StatsBody(chat.user, CategoryTotals(chat.userId))
            f == MockFacts(chat'.user, chat'.expenses)
        IN /\ chat'.totalExpenses = snap.total_expenses
           /\ chat'.saved = snap.saved_amount
           /\ f.totalExpenses = snap.total_expenses
           /\ f.saved = snap.saved_amount ]_vars

====
